---- MODULE Spec2Model ----
(***************************************************************************)
(* A model of src/src/main.rs: the per-request pipeline of process_pdf.    *)
(* For every page of the loaded document it clusters the page's glyph      *)
(* stream into text rects (extract_page_text_groups), serialises them      *)
(* (get_string_from_rects), rasterises the page at five scales             *)
(* (generate_page_images) and pushes one PagePayload.                      *)
(*                                                                         *)
(* Coordinates are f32 in the source.  The model draws them from small     *)
(* sets of integers, on which the f32 operations used (subtraction, abs,   *)
(* max, comparison, adding 5.0) are exact.  Scales are kept in hundredths  *)
(* (0.25 is 25).  A glyph text is the sequence of its code points.         *)
(* A panic (a failed unwrap, an index out of bounds) ends the request:     *)
(* pc = "panicked", and panic_site names the call that failed.             *)
(***************************************************************************)
EXTENDS Integers, Sequences, FiniteSets

VARIABLES
    doc,            \* the loaded document: a sequence of pages (line 81)
    is_answer_book, \* query parameter answer_book (line 53)
    pc,             \* position of the handler
    page_i,         \* index of the page the for loop of line 89 is at
    char_i,         \* index of the next char of chars.iter() (line 178)
    groups,         \* extract_page_text_groups: groups (line 175)
    current_group,  \* extract_page_text_groups: current_group (line 176)
    svg_text,       \* process_pdf: svg_text (line 97)
    scale_i,        \* index of the next scale of scales.iter() (line 258)
    result,         \* generate_page_images: result (line 251)
    pages_payload,  \* process_pdf: pages_payload (line 86)
    panic_site,     \* which unwrap or index panicked, "none" if none did
    body            \* the response body (line 113)

vars == <<doc, is_answer_book, pc, page_i, char_i, groups, current_group,
          svg_text, scale_i, result, pages_payload, panic_site, body>>

----------------------------------------------------------------------------
(* Bounds of the model *)

MaxChars == 3
MaxFilterChars == 3
MaxPages == 2
MaxDocChars == 1

----------------------------------------------------------------------------
(* Option<T> as a sequence of length 0 or 1 *)

None == <<>>
Some(x) == <<x>>

Max(a, b) == IF a >= b THEN a ELSE b
Abs(x) == IF x < 0 THEN -x ELSE x

SeqsUpTo(S, n) == UNION {[1..k -> S] : k \in 0..n}

----------------------------------------------------------------------------
(* Glyph filter *)

\* The character class [\x00-\x08\x0B-\x0C\x0E-\x1F\x7F] of the pattern.
CtrlClass(c) == c \in (0..8) \cup (11..12) \cup (14..31) \cup {127}

Slash == 47
CR == 13
LF == 10

\* Regex::new(r"/[\x00-\x08\x0B-\x0C\x0E-\x1F\x7F]|\r|\n/").is_match(s).
\* The slashes are literal characters of the pattern, so its three
\* alternatives are: '/' followed by a class character; '\r'; '\n'
\* followed by '/'.
re_is_match(s) ==
    \E i \in 1..Len(s) :
        \/ s[i] = Slash /\ i + 1 <= Len(s) /\ CtrlClass(s[i + 1])
        \/ s[i] = CR
        \/ s[i] = LF /\ i + 1 <= Len(s) /\ s[i + 1] = Slash

\* char_origin_y = page_height - char_origin_y
NormalizedY(g, page_height) == page_height - g.origin_y

\* The filter without its height test.
Skipped_NoHeight(g, page_height) ==
    \/ g.origin_x < 0
    \/ NormalizedY(g, page_height) < 0
    \/ re_is_match(g.text)

\* The condition of the `continue` of lines 189-195.
Skipped(g, page_height) ==
    \/ g.origin_x < 0
    \/ NormalizedY(g, page_height) < 0
    \/ re_is_match(g.text)
    \/ g.height = 0

----------------------------------------------------------------------------
(* Clustering *)

Tolerance == 5

\* The proximity test with >= for >.
is_close_enough_Strict(cur, g) == Abs(g.left - cur.right) >= g.width + Tolerance

\* The source names this is_close_enough; it is true when the glyph is too
\* far from the open group's right edge.
is_close_enough(cur, g) == Abs(g.left - cur.right) > g.width + Tolerance

is_new_group(cur, g) ==
    cur.font_family # g.font_name \/ is_close_enough(cur, g)

\* The GeneratedRect seeded with one glyph (lines 206-213 and 227-234).
SeedRect(g, y) ==
    [lx_pos      |-> <<g.origin_x>>,
     ly_pos      |-> <<y - g.height>>,
     text        |-> g.text,
     font_family |-> g.font_name,
     right       |-> g.right,
     font_size   |-> g.height]

\* The extension without its push_str.
ExtendRect_NoText(cur, g, y) ==
    LET fs == Max(cur.font_size, g.height) IN
    [lx_pos      |-> Append(cur.lx_pos, g.origin_x),
     ly_pos      |-> Append(cur.ly_pos, y - fs),
     text        |-> cur.text,
     font_family |-> cur.font_family,
     right       |-> g.right,
     font_size   |-> fs]

\* The extension with the y position pushed before font_size is updated.
ExtendRect_StaleSize(cur, g, y) ==
    [lx_pos      |-> Append(cur.lx_pos, g.origin_x),
     ly_pos      |-> Append(cur.ly_pos, y - cur.font_size),
     text        |-> cur.text \o g.text,
     font_family |-> cur.font_family,
     right       |-> g.right,
     font_size   |-> Max(cur.font_size, g.height)]

\* The open group extended with one glyph (lines 215-223).
ExtendRect(cur, g, y) ==
    LET fs == Max(cur.font_size, g.height) IN
    [lx_pos      |-> Append(cur.lx_pos, g.origin_x),
     ly_pos      |-> Append(cur.ly_pos, y - fs),
     text        |-> cur.text \o g.text,
     font_family |-> cur.font_family,
     right       |-> g.right,
     font_size   |-> fs]

\* One iteration of the for loop of lines 178-236 on the state
\* st = [groups, current_group].
StepChar(st, g, page_height) ==
    LET y == NormalizedY(g, page_height) IN
    IF Skipped(g, page_height) THEN st
    ELSE IF st.current_group # None
    THEN LET cur == st.current_group[1] IN
         IF is_new_group(cur, g)
         THEN [groups        |-> Append(st.groups, cur),
               current_group |-> Some(SeedRect(g, y))]
         ELSE [groups        |-> st.groups,
               current_group |-> Some(ExtendRect(cur, g, y))]
    ELSE [groups        |-> st.groups,
          current_group |-> Some(SeedRect(g, y))]

\* The return without the push of the open group.
CloseGroups_DropsOpen(st) == st.groups

\* Lines 238-241: the open group, if any, is pushed and groups returned.
CloseGroups(st) ==
    IF st.current_group # None
    THEN Append(st.groups, st.current_group[1])
    ELSE st.groups

\* The locals of lines 175-176 at the start of a call.
FreshGroups == [groups |-> <<>>, current_group |-> None]

----------------------------------------------------------------------------
(* Markup *)

\* The string is modelled as the sequence of the pieces written to it: the
\* svg opening tag, one text element per rect, the closing tag.  The empty
\* sequence is String::new().
SvgOpen(page_width, page_height) ==
    [tag |-> "svg", width |-> page_width, height |-> page_height]

TextElement(rect) ==
    [tag |-> "text", font_size |-> rect.font_size,
     x |-> rect.lx_pos, y |-> rect.ly_pos, text |-> rect.text]

SvgClose == [tag |-> "/svg"]

\* The serializer without its early return.
get_string_from_rects_NoEmptyCase(page_width, page_height, rects) ==
    <<SvgOpen(page_width, page_height)>>
        \o [k \in 1..Len(rects) |-> TextElement(rects[k])]
        \o <<SvgClose>>

get_string_from_rects(page_width, page_height, rects) ==
    IF rects = <<>> THEN <<>>
    ELSE <<SvgOpen(page_width, page_height)>>
            \o [k \in 1..Len(rects) |-> TextElement(rects[k])]
            \o <<SvgClose>>

----------------------------------------------------------------------------
(* Raster *)

\* The scales with two of them exchanged.
scales_Unordered == <<25, 50, 150, 100, 200>>

\* vec![0.25, 0.5, 1.0, 1.5, 2.0], in hundredths.
scales == <<25, 50, 100, 150, 200>>

\* (page_width * scale) as i32, for the non-negative sizes of the model.
TargetSize(len, scale) == (len * scale) \div 100

\* PdfColor::WHITE, with_alpha(0) when with_transparency.
ClearAlpha(with_transparency) == IF with_transparency THEN 0 ELSE 255

\* The PNG buffer the engine and the encoder produce for one scale: opaque,
\* determined by the page, the target size and the clear colour.
RenderedBuffer(p, scale, with_transparency) ==
    [page   |-> p,
     width  |-> TargetSize(doc[p].width, scale),
     height |-> TargetSize(doc[p].height, scale),
     alpha  |-> ClearAlpha(with_transparency)]

RenderOutcomes == {"ok", "render_err", "encode_err"}

----------------------------------------------------------------------------
(* The documents the requests of the model carry *)

Glyph(text, font, ox, oy, left, right, height) ==
    [text      |-> text,    font_name |-> font,
     origin_x  |-> ox,      origin_y  |-> oy,
     left      |-> left,    right     |-> right,
     width     |-> right - left,
     height    |-> height]

\* Four letter boxes on one line of a page of height 20.  With the right
\* edge of A at 5, B starts at the tolerance (gap 6, width 1) and D just
\* past it (gap 7); with the right edge of D at 13, C (width 2) starts at
\* its tolerance (gap 7), and after B just past it (gap 8).
BoxA(font, h) == Glyph(<<97>>, font, 4, 10, 4, 5, h)
BoxB(font, h) == Glyph(<<98>>, font, 11, 10, 11, 12, h)
BoxC(font, h) == Glyph(<<99, 100>>, font, 20, 12, 20, 22, h)
BoxD(font, h) == Glyph(<<101>>, font, 12, 12, 12, 13, h)

ClusterGlyphs ==
    {BoxA("F1", h) : h \in 1..2} \cup {BoxB("F1", h) : h \in 1..2}
        \cup {BoxC("F1", h) : h \in 1..2} \cup {BoxD("F1", h) : h \in 1..2}
        \cup {BoxA("F2", h) : h \in 1..2} \cup {BoxB("F2", h) : h \in 1..2}
        \cup {BoxB("F1", 0)}

\* One accepted glyph at the edge of the filter (origin_x 0, normalized y
\* 0), the same glyph with each numeric condition of the filter broken,
\* the same glyph with texts around the pattern, and one glyph far away.
FilterTexts == {<<1>>, <<LF>>, <<CR>>, <<Slash, 1>>, <<LF, Slash>>}

FilterGlyphs ==
    {Glyph(<<97>>, "F1", 0, 20, 11, 12, 1),
     Glyph(<<97>>, "F1", -1, 20, 11, 12, 1),
     Glyph(<<97>>, "F1", 0, 21, 11, 12, 1),
     Glyph(<<97>>, "F1", 0, 20, 11, 12, 0),
     Glyph(<<98>>, "F1", 30, 10, 30, 31, 2)}
        \cup {Glyph(t, "F1", 0, 20, 11, 12, 1) : t \in FilterTexts}

DocGlyphs == {BoxA("F1", 1), BoxB("F1", 2)}

PageSizes == {<<10, 20>>, <<7, 21>>}

Pages(sizes, glyphs, n) ==
    {[width |-> sz[1], height |-> sz[2], chars |-> cs] :
        sz \in sizes, cs \in SeqsUpTo(glyphs, n)}

\* One page of 10 x 20 with up to MaxChars glyphs.
ClusterDocs == {<<p>> : p \in Pages({<<10, 20>>}, ClusterGlyphs, MaxChars)}

FilterDocs == {<<p>> : p \in Pages(PageSizes, FilterGlyphs, MaxFilterChars)}

\* Up to MaxPages pages, zero pages included.
PagedDocs == SeqsUpTo(Pages(PageSizes, DocGlyphs, MaxDocChars), MaxPages)

----------------------------------------------------------------------------
(* The handler *)

\* The state at line 86, the document loaded and pages_payload empty.
Loaded(d, ab) ==
    /\ doc = d
    /\ is_answer_book = ab
    /\ pc = "pages"
    /\ page_i = 1
    /\ char_i = 1
    /\ groups = <<>>
    /\ current_group = None
    /\ svg_text = <<>>
    /\ scale_i = 1
    /\ result = <<>>
    /\ pages_payload = <<>>
    /\ panic_site = "none"
    /\ body = None

Init == \E d \in ClusterDocs : Loaded(d, FALSE)

InitFilter == \E d \in FilterDocs : Loaded(d, FALSE)

InitDoc == \E d \in PagedDocs : \E ab \in BOOLEAN : Loaded(d, ab)

page == doc[page_i]

\* The outcomes of page.text() (line 172) and of the reads of one char's
\* attributes (lines 179-183).
TextOutcomes == {"ok", "text_err"}
CharOutcomes == {"ok", "char_err"}

\* The call with accumulators that outlive it.
BeginPage_KeepsGroups ==
    /\ pc = "pages"
    /\ page_i <= Len(doc)
    /\ \E outcome \in TextOutcomes :
        IF outcome = "ok"
        THEN /\ char_i' = 1
             /\ pc' = "chars"
             /\ UNCHANGED panic_site
        ELSE /\ pc' = "panicked"
             /\ panic_site' = outcome
             /\ UNCHANGED char_i
    /\ UNCHANGED <<doc, is_answer_book, page_i, groups, current_group, svg_text,
                   scale_i, result, pages_payload, body>>

\* Line 89, a page left: line 96 calls extract_page_text_groups, whose
\* locals start empty (lines 175-176).  page.text() is the engine's and may
\* fail; the unwrap of line 172 then panics.
BeginPage ==
    /\ pc = "pages"
    /\ page_i <= Len(doc)
    /\ \E outcome \in TextOutcomes :
        IF outcome = "ok"
        THEN /\ groups' = FreshGroups.groups
             /\ current_group' = FreshGroups.current_group
             /\ char_i' = 1
             /\ pc' = "chars"
             /\ UNCHANGED panic_site
        ELSE /\ pc' = "panicked"
             /\ panic_site' = outcome
             /\ UNCHANGED <<groups, current_group, char_i>>
    /\ UNCHANGED <<doc, is_answer_book, page_i, svg_text, scale_i, result,
                   pages_payload, body>>

\* One iteration of the loop over the page's chars (lines 178-236).  The
\* reads of the char's text, origin and bounds are the engine's and may
\* fail; the unwraps of lines 179-183 then panic.
ProcessChar ==
    /\ pc = "chars"
    /\ char_i <= Len(page.chars)
    /\ \E outcome \in CharOutcomes :
        IF outcome = "ok"
        THEN /\ LET st == StepChar([groups |-> groups,
                                    current_group |-> current_group],
                                   page.chars[char_i], page.height)
                IN /\ groups' = st.groups
                   /\ current_group' = st.current_group
             /\ char_i' = char_i + 1
             /\ UNCHANGED <<pc, panic_site>>
        ELSE /\ pc' = "panicked"
             /\ panic_site' = outcome
             /\ UNCHANGED <<groups, current_group, char_i>>
    /\ UNCHANGED <<doc, is_answer_book, page_i, svg_text, scale_i, result,
                   pages_payload, body>>

\* The stream has ended: lines 238-241 return the groups.
ReturnGroups ==
    /\ pc = "chars"
    /\ char_i > Len(page.chars)
    /\ groups' = CloseGroups([groups |-> groups, current_group |-> current_group])
    /\ current_group' = None
    /\ pc' = "svg"
    /\ UNCHANGED <<doc, is_answer_book, page_i, char_i, svg_text, scale_i, result,
                   pages_payload, panic_site, body>>

\* Line 97, then line 100 enters generate_page_images (lines 251-257).
Serialize ==
    /\ pc = "svg"
    /\ svg_text' = get_string_from_rects(page.width, page.height, groups)
    /\ result' = <<>>
    /\ scale_i' = 1
    /\ pc' = "images"
    /\ UNCHANGED <<doc, is_answer_book, page_i, char_i, groups, current_group,
                   pages_payload, panic_site, body>>

PageImage(scale, buffer) == [scale |-> scale, buffer |-> buffer]

\* One iteration of the loop over the scales (lines 258-280).  The render
\* and the PNG encoding are the engine's: each may fail, and the unwrap of
\* lines 268 and 275 then panics.
RenderScale ==
    /\ pc = "images"
    /\ scale_i <= Len(scales)
    /\ \E outcome \in RenderOutcomes :
        IF outcome = "ok"
        THEN /\ result' = Append(result,
                    PageImage(scales[scale_i],
                              RenderedBuffer(page_i, scales[scale_i], is_answer_book)))
             /\ scale_i' = scale_i + 1
             /\ UNCHANGED <<pc, panic_site>>
        ELSE /\ pc' = "panicked"
             /\ panic_site' = outcome
             /\ UNCHANGED <<result, scale_i>>
    /\ UNCHANGED <<doc, is_answer_book, page_i, char_i, groups, current_group,
                   svg_text, pages_payload, body>>

PagePayload(svg, images) == [svg_text |-> svg, images |-> images]

\* Line 281 returns result; lines 102-105 push the page's payload.
PushPayload ==
    /\ pc = "images"
    /\ scale_i > Len(scales)
    /\ pages_payload' = Append(pages_payload, PagePayload(svg_text, result))
    /\ page_i' = page_i + 1
    /\ pc' = "pages"
    /\ UNCHANGED <<doc, is_answer_book, char_i, groups, current_group, svg_text,
                   scale_i, result, panic_site, body>>

\* Lines 108-114 after the last page: pages_payload[0] panics on a document
\* without pages, else the body is the third image of the first page.
Respond ==
    /\ pc = "pages"
    /\ page_i > Len(doc)
    /\ IF Len(pages_payload) = 0
       THEN /\ pc' = "panicked"
            /\ panic_site' = "index"
            /\ UNCHANGED body
       ELSE /\ pc' = "done"
            /\ body' = Some(pages_payload[1].images[3].buffer)
            /\ UNCHANGED panic_site
    /\ UNCHANGED <<doc, is_answer_book, page_i, char_i, groups, current_group,
                   svg_text, scale_i, result, pages_payload>>

Next ==
    \/ BeginPage
    \/ ProcessChar
    \/ ReturnGroups
    \/ Serialize
    \/ RenderScale
    \/ PushPayload
    \/ Respond

Spec == Init /\ [][Next]_vars

SpecFilter == InitFilter /\ [][Next]_vars

SpecDoc == InitDoc /\ [][Next]_vars

----------------------------------------------------------------------------
(* What the claims speak about *)

\* extract_page_text_groups is running or has just returned.
InExtract == pc \in {"chars", "svg"}

\* The glyphs of the page the loop has consumed, and the accepted ones.
Seen == SubSeq(page.chars, 1, char_i - 1)

Accepted == SelectSeq(Seen, LAMBDA g : ~Skipped(g, page.height))

\* The closed blocks followed by the open one, if any.
Blocks == groups \o current_group

RECURSIVE Members(_, _)
\* The number of glyphs in the first k blocks.
Members(blocks, k) ==
    IF k = 0 THEN 0 ELSE Members(blocks, k - 1) + Len(blocks[k].lx_pos)

\* The accepted glyphs that fall to block k when the blocks take the
\* accepted glyphs in arrival order.
Slice(acc, blocks, k) ==
    SubSeq(acc, Members(blocks, k - 1) + 1, Members(blocks, k))

RECURSIVE ConcatText(_)
ConcatText(gs) ==
    IF gs = <<>> THEN <<>> ELSE gs[1].text \o ConcatText(Tail(gs))

RECURSIVE MaxHeight(_, _)
\* The greatest bounds.height of the glyphs 1..k of gs.
MaxHeight(gs, k) ==
    IF k = 1 THEN gs[1].height ELSE Max(MaxHeight(gs, k - 1), gs[k].height)

\* C1: the blocks partition the accepted glyphs in arrival order: every
\* block has a member, its two position lists are as long as its member
\* count, there are no more blocks than accepted glyphs, and block by block
\* the x positions and the text are those of the next accepted glyphs, all
\* of them used.
C1_Partition ==
    InExtract =>
        /\ Members(Blocks, Len(Blocks)) = Len(Accepted)
        /\ Len(Blocks) <= Len(Accepted)
        /\ \A k \in 1..Len(Blocks) :
            LET b == Blocks[k]
                m == Slice(Accepted, Blocks, k)
            IN /\ Len(b.lx_pos) >= 1
               /\ Len(b.ly_pos) = Len(b.lx_pos)
               /\ b.lx_pos = [j \in 1..Len(m) |-> m[j].origin_x]
               /\ b.text = ConcatText(m)

\* The stream has ended with two blocks of different sizes.
C1_Witness ==
    /\ pc = "svg"
    /\ Len(groups) = 2
    /\ Len(Accepted) = 3
    /\ Len(groups[1].lx_pos) = 2

\* A ProcessChar step on an accepted glyph while a block is open.
OpenAndAccepted ==
    /\ pc = "chars"
    /\ char_i' = char_i + 1
    /\ current_group # None
    /\ ~Skipped(page.chars[char_i], page.height)

\* C2: an accepted glyph extends the open block iff it has the block's
\* font_family and abs(left - right_edge) <= width + 5.0; otherwise the open
\* block is closed and a new one seeded with the glyph.  right_edge and
\* font_family are those of the most recently accepted glyph.
C2_ExtendsIff ==
    /\ [](InExtract /\ current_group # None =>
            /\ Accepted # <<>>
            /\ current_group[1].right = Accepted[Len(Accepted)].right
            /\ current_group[1].font_family = Accepted[Len(Accepted)].font_name)
    /\ [][OpenAndAccepted =>
            LET cur == current_group[1]
                g == page.chars[char_i]
            IN IF /\ g.font_name = cur.font_family
                  /\ Abs(g.left - cur.right) <= g.width + 5
               THEN /\ groups' = groups
                    /\ Len(current_group') = 1
                    /\ current_group'[1].lx_pos = Append(cur.lx_pos, g.origin_x)
                    /\ current_group'[1].text = cur.text \o g.text
               ELSE /\ groups' = Append(groups, cur)
                    /\ Len(current_group') = 1
                    /\ current_group'[1].lx_pos = <<g.origin_x>>
                    /\ current_group'[1].text = g.text
                    /\ current_group'[1].font_family = g.font_name]_vars

\* Two glyphs of one family at a gap of exactly width + 5.0 are in the open
\* block, after a block closed by a gap just above it.
C2_Witness ==
    /\ pc = "chars"
    /\ Len(Accepted) = 3
    /\ LET a == Accepted[1]
           b == Accepted[2]
           c == Accepted[3]
       IN /\ a.font_name = b.font_name /\ b.font_name = c.font_name
          /\ Abs(b.left - a.right) = b.width + 5 + 1
          /\ Abs(c.left - b.right) = c.width + 5
    /\ Len(groups) = 1
    /\ Len(current_group[1].lx_pos) = 2

\* The characters the filter is to reject: U+0000-U+0008, U+000B-U+000C,
\* U+000E-U+001F, U+007F, carriage return, line feed.
ControlOrBreak(c) ==
    c \in (0..8) \cup (11..12) \cup (14..31) \cup {127} \cup {13, 10}

\* C3: no glyph whose text holds a control or line-break character reaches
\* a block: no accepted glyph and no block text holds such a character.
C3_NoControlText ==
    InExtract =>
        /\ \A k \in 1..Len(Accepted) :
            \A i \in 1..Len(Accepted[k].text) : ~ControlOrBreak(Accepted[k].text[i])
        /\ \A k \in 1..Len(Blocks) :
            \A i \in 1..Len(Blocks[k].text) : ~ControlOrBreak(Blocks[k].text[i])

\* A glyph rejected for its origin or its height.
OffPageOrFlat(g, page_height) ==
    \/ g.origin_x < 0
    \/ page_height - g.origin_y < 0
    \/ g.height = 0

\* C4: a step on a glyph with origin_x < 0, normalized y < 0 or height 0
\* leaves the open accumulator and the closed blocks as they were.
C4_RejectedLeavesState ==
    [][(/\ pc = "chars"
        /\ char_i' = char_i + 1
        /\ OffPageOrFlat(page.chars[char_i], page.height))
            => /\ groups' = groups
               /\ current_group' = current_group]_vars

\* An accepted glyph, a glyph rejected for its origin or height, and an
\* accepted glyph that joined the block of the first.
C4_Witness ==
    /\ pc = "chars"
    /\ char_i = 4
    /\ OffPageOrFlat(page.chars[2], page.height)
    /\ Len(Accepted) = 2
    /\ groups = <<>>
    /\ Len(current_group[1].lx_pos) = 2

\* C5: a stream without accepted glyphs returns no block, and the markup is
\* the empty string exactly when there is no block.
C5_EmptyMarkup ==
    /\ (pc \in {"svg", "images"} /\ Accepted = <<>>) => groups = <<>>
    /\ pc = "images" => (svg_text = <<>> <=> groups = <<>>)

\* Every glyph of a stream of two or more was filtered out, and the markup
\* is empty.
C5_Witness ==
    /\ pc = "images"
    /\ Len(page.chars) >= 2
    /\ Accepted = <<>>
    /\ svg_text = <<>>

\* C6: a raster or encoding failure at one scale does not abort the
\* request.
C6_ScaleFailureIsolated ==
    pc = "panicked" => panic_site \notin {"render_err", "encode_err"}

\* C7: the images generate_page_images returns are five, carry the scales
\* 0.25, 0.5, 1.0, 1.5, 2.0 in this order, strictly ascending, each with the
\* buffer rendered for its scale; while it runs the result is the prefix
\* rendered so far.
C7_FiveImages ==
    pc = "images" =>
        /\ Len(result) = scale_i - 1
        /\ scale_i > 5 => Len(result) = 5
        /\ \A i \in 1..Len(result) :
            /\ result[i].scale = <<25, 50, 100, 150, 200>>[i]
            /\ result[i].buffer =
                [page   |-> page_i,
                 width  |-> (page.width * result[i].scale) \div 100,
                 height |-> (page.height * result[i].scale) \div 100,
                 alpha  |-> IF is_answer_book THEN 0 ELSE 255]
        /\ \A i, j \in 1..Len(result) : i < j => result[i].scale < result[j].scale

\* All five scales of a 7 x 21 page are rendered with transparency.
C7_Witness ==
    /\ pc = "images"
    /\ scale_i = 6
    /\ is_answer_book
    /\ page.width = 7
    /\ Len(result) = 5

RECURSIVE FoldChars(_, _, _)
\* The loop of lines 178-236 over a whole stream.
FoldChars(st, chars, page_height) ==
    IF chars = <<>> THEN st
    ELSE FoldChars(StepChar(st, chars[1], page_height), Tail(chars), page_height)

\* extract_page_text_groups on one page, on its own.
extract_page_text_groups(chars, page_height) ==
    CloseGroups(FoldChars(FreshGroups, chars, page_height))

\* generate_page_images on one page, on its own, no failure.
generate_page_images(p, with_transparency) ==
    [i \in 1..Len(scales) |->
        PageImage(scales[i], RenderedBuffer(p, scales[i], with_transparency))]

\* The payload of page p computed from page p alone.
PayloadOf(p) ==
    PagePayload(
        get_string_from_rects(doc[p].width, doc[p].height,
            extract_page_text_groups(doc[p].chars, doc[p].height)),
        generate_page_images(p, is_answer_book))

\* C8: the payloads are one per page processed, in document order, each
\* computed from its page alone; the clustering state of a page is that of
\* a run over this page's glyphs from the empty state, and the page loop
\* ends with as many payloads as pages.
C8_PerPagePayloads ==
    /\ Len(pages_payload) = page_i - 1
    /\ (pc = "done" \/ (pc = "pages" /\ page_i > Len(doc)))
            => Len(pages_payload) = Len(doc)
    /\ \A p \in 1..Len(pages_payload) : pages_payload[p] = PayloadOf(p)
    /\ InExtract =>
        /\ [groups |-> groups, current_group |-> current_group]
              = (IF pc = "chars"
                 THEN FoldChars(FreshGroups, Seen, page.height)
                 ELSE [groups |-> extract_page_text_groups(page.chars, page.height),
                       current_group |-> None])
        /\ Members(Blocks, Len(Blocks)) = Len(Accepted)

\* Two pages, each of one glyph, whose glyphs on one page would share a
\* block, were answered.
C8_Witness ==
    /\ pc = "done"
    /\ Len(doc) = 2
    /\ Len(doc[1].chars) = 1
    /\ Len(doc[2].chars) = 1
    /\ doc[1].height = doc[2].height
    /\ ~is_new_group(SeedRect(doc[1].chars[1], 0), doc[2].chars[1])
    /\ Len(pages_payload) = 2

\* C9: in every block the k-th y position is the k-th member's normalized y
\* minus the greatest height of the members 1..k, font_size is the greatest
\* height of the members so far, and font_size of the open block never
\* decreases.
C9_RunningMax ==
    /\ [](InExtract =>
            \A k \in 1..Len(Blocks) :
                LET b == Blocks[k]
                    m == Slice(Accepted, Blocks, k)
                IN /\ Len(b.ly_pos) = Len(m)
                   /\ \A j \in 1..Len(m) :
                        b.ly_pos[j] = (page.height - m[j].origin_y) - MaxHeight(m, j)
                   /\ b.font_size = MaxHeight(m, Len(m)))
    /\ [][(/\ pc = "chars"
           /\ current_group # None
           /\ current_group' # None
           /\ groups' = groups)
            => current_group'[1].font_size >= current_group[1].font_size]_vars

\* A block of heights 1, 2, 1: the third y position is offset by 2, not by
\* the third glyph's own height.
C9_Witness ==
    /\ pc = "chars"
    /\ Len(Accepted) = 3
    /\ Accepted[1].height = 1 /\ Accepted[2].height = 2 /\ Accepted[3].height = 1
    /\ groups = <<>>
    /\ Len(current_group[1].ly_pos) = 3
    /\ current_group[1].ly_pos[3] = (page.height - Accepted[3].origin_y) - 2

RECURSIVE Opened(_, _)
\* The number of blocks the accepted glyphs 1..k open: the first glyph
\* opens one, and so does each glyph of another family than, or too far
\* from, the glyph before it.
Opened(acc, k) ==
    IF k = 0 THEN 0
    ELSE IF k = 1 THEN 1
    ELSE Opened(acc, k - 1)
            + (IF \/ acc[k].font_name # acc[k - 1].font_name
                  \/ Abs(acc[k].left - acc[k - 1].right) > acc[k].width + 5
               THEN 1 ELSE 0)

\* C10: there is at most one open block and it is not yet in the output;
\* the output grows only by appending the open block at its end; when the
\* stream ends the open block is appended once; so every block opened is
\* appended exactly once.
C10_AppendOnly ==
    /\ [](/\ Len(current_group) <= 1
          /\ pc = "chars" => Len(groups) + Len(current_group) = Opened(Accepted, Len(Accepted))
          /\ pc = "svg" => Len(groups) = Opened(Accepted, Len(Accepted)))
    /\ [][pc = "chars" =>
            \/ groups' = groups
            \/ /\ current_group # None
               /\ groups' = Append(groups, current_group[1])]_vars
    /\ [][pc = "chars" /\ pc' = "svg" => groups' = groups \o current_group]_vars

\* Three blocks were returned: two closed by a glyph, the last by the end of
\* the stream.
C10_Witness ==
    /\ pc = "svg"
    /\ Len(groups) = 3
    /\ Len(Accepted) = 3

====
